---- MODULE Spec2Model ----
(***************************************************************************)
(* Model of the ForgeBlock account API (src/server.js): registration,      *)
(* login, token verification, logout, rename and the game-server          *)
(* endpoints, over the MySQL store (pool set) or the in-memory fallback    *)
(* (pool null).                                                            *)
(*                                                                         *)
(* Strings that the code inspects character by character (usernames,      *)
(* emails, passwords) are sequences of one-character strings.  Time is    *)
(* counted in days since the Unix epoch; two requests served with no clock *)
(* step between them read the same Date.now().                             *)
(*                                                                         *)
(* Every route is a function from the stored state and the request to the  *)
(* state it leaves and the response it sends (Api...), and an action that  *)
(* applies it to the current state.  Spec handles one request at a time;   *)
(* SpecC runs register and change-username requests interleaved at their   *)
(* awaits.                                                                 *)
(***************************************************************************)
EXTENDS Integers, Sequences, FiniteSets, TLC

\* ---------------------------------------------------------------- bounds
MaxUsers == 2      \* rows a store may hold
MaxTicks == 1      \* clock steps in one behaviour
MaxTokens == 2     \* distinct tokens handed out in one behaviour
MaxInFlight == 2   \* requests suspended at an await at one time
StartDay == 20000  \* Date.now() of the initial state, in days since the epoch

\* ------------------------------------------------------- program constants
RememberDays == 30    \* login: remember ? 30 : 1
SessionDays == 1
RenameDays == 30      \* change-username: getDate() + 30
JwtExpiresDays == 30  \* generateToken: expiresIn '30d'
MinPasswordLen == 4
MinNameLen == 3
MaxNameLen == 24

\* ------------------------------------------------------------- characters
LowerSeq == <<"a","b","c","d","e","f","g","h","i","j","k","l","m",
              "n","o","p","q","r","s","t","u","v","w","x","y","z">>
UpperSeq == <<"A","B","C","D","E","F","G","H","I","J","K","L","M",
              "N","O","P","Q","R","S","T","U","V","W","X","Y","Z">>
DigitSeq == <<"0","1","2","3","4","5","6","7","8","9">>

Range(s) == { s[i] : i \in DOMAIN s }

WordChars == Range(LowerSeq) \cup Range(UpperSeq) \cup Range(DigitSeq) \cup {"_"}
SpaceChars == {" "}

\* String.prototype.toLowerCase / SQL LOWER(), one character
LowerOf == [c \in Range(UpperSeq) |->
               LowerSeq[CHOOSE i \in DOMAIN UpperSeq : UpperSeq[i] = c]]

LowerChar(c) == IF c \in DOMAIN LowerOf THEN LowerOf[c] ELSE c

toLowerCase(s) == [i \in DOMAIN s |-> LowerChar(s[i])]

\* /^[a-zA-Z0-9_]{3,24}$/.test(username)
isValidUsername(username) ==
    /\ Len(username) >= MinNameLen
    /\ Len(username) <= MaxNameLen
    /\ \A i \in DOMAIN username : username[i] \in WordChars

\* /^[^\s@]+@[^\s@]+\.[^\s@]+$/.test(email)
Plain(s, a, b) == a <= b /\ \A k \in a..b : s[k] \notin SpaceChars \cup {"@"}

isValidEmail(email) ==
    \E i, j \in DOMAIN email :
        /\ email[i] = "@"
        /\ email[j] = "."
        /\ Plain(email, 1, i - 1)
        /\ Plain(email, i + 1, j - 1)
        /\ Plain(email, j + 1, Len(email))

\* The users table is created with DEFAULT CHARSET=utf8mb4 and no COLLATE, so
\* its VARCHAR columns compare under the charset's default, case-insensitive
\* collation: "username = ?" and the UNIQUE indexes ignore letter case.
SqlEq(a, b) == toLowerCase(a) = toLowerCase(b)

\* bcrypt.hash / bcrypt.compare: an opaque one-way verifier
Hash(password) == <<"$2a$10$">> \o password
bcryptCompare(password, hash) == hash = Hash(password)

\* -------------------------------------------------------------- inputs
Str3(a, b, c) == <<a, b, c>>
Empty == <<>>                      \* a missing or empty field (falsy)
bob == Str3("b", "o", "b")
Bob == Str3("B", "o", "b")
amy == Str3("a", "m", "y")
TooShort == <<"a", "b">>
BadChar == Str3("b", " ", "b")
TooLong == [i \in 1..(MaxNameLen + 1) |-> "x"]

pass == <<"p","a","s","s">>
word == <<"w","o","r","d">>
bobMail == <<"b","@","x",".","c">>
BobMail == <<"B","@","x",".","c">>
amyMail == <<"A","@","x",".","c">>
BadMail == <<"b","@","x","c">>

\* The values a request field is drawn from when a property speaks of every
\* request
NameInputs == {bob, Bob, amy, TooShort, BadChar, TooLong, Empty}
EmailInputs == {bobMail, BobMail, amyMail, BadMail, Empty}
PasswordInputs == {pass, word, <<"a","b","c">>, Empty}

\* ---------------------------------------------------------------- tokens
JWT_SECRET == "forgeblock-secret-key-change-in-production"
MsPerSec == 1000

\* A signed token is its payload {userId, username, iat} and the key that
\* signed it; HS256 is deterministic, so equal payloads under one key are
\* the same token string.
NoToken == [userId |-> 0, username |-> Empty, iat |-> 0, key |-> ""]
NoTime == 0    \* a NULL DATETIME / TIMESTAMP

VARIABLES
    pool,             \* TRUE: the mysql pool is set; FALSE: pool is null
    users,            \* table users: id -> row
    player_data,      \* table player_data: user_id -> row
    memoryUsers,      \* Map memoryUsers: id -> record
    memoryIdCounter,
    now,              \* Date.now(), in days
    ticks,            \* clock steps taken
    cookies,          \* the browser's cookie jar: authToken, username
    issued,           \* the tokens handed out in responses so far
    inflight          \* requests suspended at an await: slot -> request

vars == <<pool, users, player_data, memoryUsers, memoryIdCounter, now, ticks,
          cookies, issued, inflight>>

\* What a route reads and writes, as one value
Cur == [users |-> users, player_data |-> player_data, memoryUsers |-> memoryUsers,
        memoryIdCounter |-> memoryIdCounter, cookies |-> cookies, issued |-> issued]

\* ok is the response's success (or valid) field; cookie is the authToken
\* cookie the response sets (NoToken: none).
Reply(ok, message) ==
    [ok |-> ok, status |-> 200, message |-> message, token |-> NoToken,
     username |-> Empty, userId |-> 0, cookie |-> NoToken,
     placeId |-> 0, posX |-> 0, posY |-> 0, posZ |-> 0]

\* A route's result: the state it leaves and the response
Out(s, resp) == [s |-> s, resp |-> resp]

\* jwt.sign({userId, username, iat: Date.now()}, JWT_SECRET, {expiresIn: '30d'})
generateTokenLowerCase(userId, username) ==
    [userId |-> userId, username |-> toLowerCase(username), iat |-> now,
     key |-> JWT_SECRET]

generateToken(userId, username) ==
    [userId |-> userId, username |-> username, iat |-> now, key |-> JWT_SECRET]

\* jwt.verify: the signature, then exp.  iat is Date.now() in milliseconds, but
\* jsonwebtoken reads iat as seconds: exp = iat + 30 * 86400 "seconds", and the
\* token has expired once floor(Date.now() / 1000) >= exp.  In days that is
\* now >= 1000 * iat + 30.
verifyTokenNoSignature(token) == now < token.iat * MsPerSec + JwtExpiresDays

verifyToken(token) ==
    /\ token.key = JWT_SECRET
    /\ now < token.iat * MsPerSec + JwtExpiresDays

\* Tokens not signed with JWT_SECRET (tampered, or signed with another key)
ForgedTokens ==
    { [userId |-> 1, username |-> bob, iat |-> StartDay, key |-> "other-key"] }

\* What a client can put in a request: nothing, a token it was given, a forgery
TokenInputs == {NoToken} \cup issued \cup ForgedTokens

NoCookies == [authToken |-> NoToken, username |-> Empty]

DefaultPlayer == [place_id |-> 1, pos_x |-> 0, pos_y |-> 5, pos_z |-> 0, play_time |-> 0]

\* A request suspended at an await, with the locals it holds
Idle == [op |-> "idle", pc |-> "", username |-> Empty, email |-> Empty,
         password |-> Empty, userId |-> 0]

Init ==
    /\ inflight = [slot \in 1..MaxInFlight |-> Idle]
    /\ pool \in BOOLEAN
    /\ users = <<>>
    /\ player_data = <<>>
    /\ memoryUsers = <<>>
    /\ memoryIdCounter = 1
    /\ now = StartDay
    /\ ticks = 0
    /\ cookies = NoCookies
    /\ issued = {}

\* The state a route leaves becomes the current state
Apply(o) ==
    /\ users' = o.s.users
    /\ player_data' = o.s.player_data
    /\ memoryUsers' = o.s.memoryUsers
    /\ memoryIdCounter' = o.s.memoryIdCounter
    /\ cookies' = o.s.cookies
    /\ issued' = o.s.issued
    /\ UNCHANGED <<pool, now, ticks>>

\* A request handled with no other request running between its awaits
Handle(o) == Apply(o) /\ UNCHANGED inflight

\* The model's bounds on what a store and a behaviour may hold
WithinBounds(o) ==
    /\ Cardinality(DOMAIN o.s.users) <= MaxUsers
    /\ Cardinality(DOMAIN o.s.memoryUsers) <= MaxUsers
    /\ Cardinality(o.s.issued) <= MaxTokens

\* ------------------------------------------------------------ register
\* SELECT id FROM users WHERE LOWER(username) = LOWER(?) OR LOWER(email) = LOWER(?)
RegisterExistingByEmail(s, username, email) ==
    { id \in DOMAIN s.users :
        toLowerCase(s.users[id].email) = toLowerCase(email) }

RegisterExisting(s, username, email) ==
    { id \in DOMAIN s.users :
        \/ toLowerCase(s.users[id].username) = toLowerCase(username)
        \/ toLowerCase(s.users[id].email) = toLowerCase(email) }

\* the loop over memoryUsers
RegisterExistingMemory(s, username, email) ==
    { id \in DOMAIN s.memoryUsers :
        \/ toLowerCase(s.memoryUsers[id].username) = toLowerCase(username)
        \/ s.memoryUsers[id].email = toLowerCase(email) }

\* username VARCHAR(32) UNIQUE, email VARCHAR(255) UNIQUE: an INSERT or UPDATE
\* that would give a second row the key throws ER_DUP_ENTRY
NoUniqueIndex(s, id, username, email) == FALSE

UniqueViolation(s, id, username, email) ==
    \E other \in DOMAIN s.users \ {id} :
        \/ SqlEq(s.users[other].username, username)
        \/ SqlEq(s.users[other].email, email)

\* INSERT INTO users (username, email, password_hash, face)
NewUserRowLoggedIn(username, email, password) ==
    [username |-> username, email |-> toLowerCase(email),
     password_hash |-> Hash(password), auth_token |-> generateToken(1, username),
     token_expires |-> now + RememberDays, last_login |-> now, is_banned |-> FALSE]

NewUserRow(username, email, password) ==
    [username |-> username, email |-> toLowerCase(email),
     password_hash |-> Hash(password), auth_token |-> NoToken,
     token_expires |-> NoTime, last_login |-> NoTime, is_banned |-> FALSE]

NewMemoryUser(userId, username, email, password) ==
    [id |-> userId, username |-> username, email |-> toLowerCase(email),
     passwordHash |-> Hash(password)]

\* result.insertId (AUTO_INCREMENT; no route deletes a row)
InsertId(s) == Cardinality(DOMAIN s.users) + 1

RegisterFailed == Reply(FALSE, "Registration failed. Please try again.")
RegisterConflict == Reply(FALSE, "Username or email already exists")
RegisterDone == Reply(TRUE, "Registration successful! You can now login.")

\* the checks of req.body that come before the first await
RegisterValidateRequiredOnly(username, email, password) ==
    IF username = Empty \/ email = Empty \/ password = Empty
    THEN Reply(FALSE, "All fields are required")
    ELSE Reply(TRUE, "")

RegisterValidate(username, email, password) ==
    IF username = Empty \/ email = Empty \/ password = Empty
    THEN Reply(FALSE, "All fields are required")
    ELSE IF ~isValidUsername(username)
    THEN Reply(FALSE, "Username: 3-24 characters")
    ELSE IF Len(password) < MinPasswordLen
    THEN Reply(FALSE, "Password must be at least 4 characters")
    ELSE IF ~isValidEmail(email)
    THEN Reply(FALSE, "Invalid email format")
    ELSE Reply(TRUE, "next")

\* POST /api/register.  fail = k > 0: the k-th pool.execute of the route throws
ApiRegister(s, username, email, password, fail) ==
    IF ~RegisterValidate(username, email, password).ok
    THEN Out(s, RegisterValidate(username, email, password))
    ELSE IF pool
    THEN IF fail = 1 THEN Out(s, RegisterFailed)
         ELSE IF RegisterExisting(s, username, email) # {} THEN Out(s, RegisterConflict)
         ELSE IF fail = 2 \/ UniqueViolation(s, 0, username, toLowerCase(email))
         THEN Out(s, RegisterFailed)
         ELSE LET id == InsertId(s)
                  s1 == [s EXCEPT !.users =
                            (id :> NewUserRow(username, email, password)) @@ s.users]
                  s2 == [s1 EXCEPT !.player_data = (id :> DefaultPlayer) @@ s.player_data]
              IN IF fail = 3 THEN Out(s1, RegisterFailed) ELSE Out(s2, RegisterDone)
    ELSE IF RegisterExistingMemory(s, username, email) # {} THEN Out(s, RegisterConflict)
         ELSE LET userId == s.memoryIdCounter
              IN Out([s EXCEPT !.memoryUsers =
                          (userId :> NewMemoryUser(userId, username, email, password))
                              @@ s.memoryUsers,
                        !.memoryIdCounter = userId + 1],
                     RegisterDone)

Register(username, email, password, fail) ==
    LET o == ApiRegister(Cur, username, email, password, fail)
    IN /\ WithinBounds(o)
       /\ Handle(o)

\* -------------------------------------------------------------- login
\* SELECT ... FROM users WHERE username = ?
LoginSelect(s, username) ==
    { id \in DOMAIN s.users : SqlEq(s.users[id].username, username) }

\* the loop over memoryUsers, which stops at the first match
LoginSelectMemory(s, username) ==
    { id \in DOMAIN s.memoryUsers :
        /\ toLowerCase(s.memoryUsers[id].username) = toLowerCase(username)
        /\ \A other \in DOMAIN s.memoryUsers :
               toLowerCase(s.memoryUsers[other].username) = toLowerCase(username)
                   => id <= other }

LoginFailed == Reply(FALSE, "Login failed")
LoginInvalid == Reply(FALSE, "Invalid username or password")
LoginBanned == Reply(FALSE, "Account is banned")

\* expiresAt.setDate(expiresAt.getDate() + (remember ? 30 : 1))
LoginExpires(remember) == now + (IF remember THEN RememberDays ELSE SessionDays)

LoginSuccess(id, username, token, remember) ==
    [Reply(TRUE, "Login successful") EXCEPT
        !.token = token, !.username = username, !.userId = id,
        !.cookie = IF remember THEN token ELSE NoToken]

\* UPDATE users SET auth_token = ?, token_expires = ?, last_login = NOW() WHERE id = ?
LoginUpdateKeepsExpiry(s, id, token, remember) ==
    [s EXCEPT !.users[id].auth_token = token, !.users[id].last_login = now]

LoginUpdate(s, id, token, remember) ==
    [s EXCEPT !.users[id].auth_token = token,
              !.users[id].token_expires = LoginExpires(remember),
              !.users[id].last_login = now]

\* res.cookie('authToken', token, ...); res.cookie('username', ...) if remember
LoginCookiesAlways(s, username, token, remember) ==
    [s EXCEPT !.cookies = [authToken |-> token, username |-> username],
              !.issued = s.issued \cup {token}]

LoginCookies(s, username, token, remember) ==
    [s EXCEPT !.cookies = IF remember
                          THEN [authToken |-> token, username |-> username]
                          ELSE s.cookies,
              !.issued = s.issued \cup {token}]

\* user.is_banned
LoginBanCheckOff(row) == FALSE

LoginBanCheck(row) == row.is_banned

\* POST /api/login
ApiLogin(s, username, password, remember, fail) ==
    IF username = Empty \/ password = Empty
    THEN Out(s, Reply(FALSE, "Username and password required"))
    ELSE IF pool
    THEN IF fail = 1 THEN Out(s, LoginFailed)
         ELSE IF LoginSelect(s, username) = {} THEN Out(s, LoginInvalid)
         ELSE LET id == CHOOSE i \in LoginSelect(s, username) : TRUE
                  user == s.users[id]
                  token == generateToken(id, user.username)
              IN IF LoginBanCheck(user) THEN Out(s, LoginBanned)
                 ELSE IF ~bcryptCompare(password, user.password_hash)
                 THEN Out(s, LoginInvalid)
                 ELSE IF fail = 2 THEN Out(s, LoginFailed)
                 ELSE Out(LoginCookies(LoginUpdate(s, id, token, remember),
                                       user.username, token, remember),
                          LoginSuccess(id, user.username, token, remember))
    ELSE IF LoginSelectMemory(s, username) = {} THEN Out(s, LoginInvalid)
         ELSE LET id == CHOOSE i \in LoginSelectMemory(s, username) : TRUE
                  user == s.memoryUsers[id]
                  token == generateToken(id, user.username)
              IN IF ~bcryptCompare(password, user.passwordHash)
                 THEN Out(s, LoginInvalid)
                 ELSE Out(LoginCookies(s, user.username, token, remember),
                          LoginSuccess(id, user.username, token, remember))

Login(username, password, remember, fail) ==
    LET o == ApiLogin(Cur, username, password, remember, fail)
    IN /\ WithinBounds(o)
       /\ Handle(o)

\* -------------------------------------------------------------- verify
\* req.cookies.authToken || req.headers.authorization?.replace('Bearer ', '')
RequestToken(cookie, header) == IF cookie # NoToken THEN cookie ELSE header

Invalid == Reply(FALSE, "")

\* SELECT ... FROM users WHERE id = ? AND auth_token = ?
VerifySelect(s, decoded, token) ==
    { id \in DOMAIN s.users : id = decoded.userId /\ s.users[id].auth_token = token }

\* user.token_expires && new Date(user.token_expires) < new Date()
StoredExpiryPassed(row) == row.token_expires # NoTime /\ row.token_expires < now

\* users[0].is_banned
VerifyBanCheckOff(row) == FALSE

VerifyBanCheck(row) == row.is_banned

\* users.length === 0 || users[0].is_banned: res.json({ valid: false })
VerifyBannedTold == Reply(FALSE, "Account banned")

VerifyBanned == Invalid

\* POST /api/verify, the token taken from the cookie or the header
ApiVerify(s, token, fail) ==
    IF token = NoToken THEN Out(s, Invalid)
    ELSE IF ~verifyToken(token) THEN Out(s, Invalid)
    ELSE IF pool
    THEN IF fail = 1 THEN Out(s, Invalid)
         ELSE IF VerifySelect(s, token, token) = {} THEN Out(s, Invalid)
         ELSE LET id == CHOOSE i \in VerifySelect(s, token, token) : TRUE
                  user == s.users[id]
              IN IF VerifyBanCheck(user) THEN Out(s, VerifyBanned)
                 ELSE IF StoredExpiryPassed(user) THEN Out(s, Invalid)
                 ELSE Out(s, [Reply(TRUE, "") EXCEPT !.username = user.username,
                                                     !.userId = id])
    ELSE Out(s, [Reply(TRUE, "") EXCEPT !.username = token.username,
                                        !.userId = token.userId])

Verify(cookie, header, fail) ==
    LET o == ApiVerify(Cur, RequestToken(cookie, header), fail)
    IN /\ WithinBounds(o)
       /\ Handle(o)

\* -------------------------------------------------------------- logout
\* POST /api/logout: res.clearCookie('authToken'); res.clearCookie('username')
ApiLogoutRevokes(s) ==
    Out([s EXCEPT !.cookies = NoCookies,
                  !.users = [id \in DOMAIN s.users |->
                      [s.users[id] EXCEPT !.auth_token =
                          IF s.users[id].auth_token = s.cookies.authToken
                          THEN NoToken ELSE s.users[id].auth_token]]],
        Reply(TRUE, ""))

ApiLogout(s) == Out([s EXCEPT !.cookies = NoCookies], Reply(TRUE, ""))

Logout ==
    LET o == ApiLogout(Cur)
    IN /\ WithinBounds(o)
       /\ Handle(o)

\* ---------------------------------------------------- change-username
Unauthorized(message) == [Reply(FALSE, message) EXCEPT !.status = 401]

\* authMiddleware answers 401 itself, or calls next() with req.user = decoded
authMiddleware(token) ==
    IF token = NoToken THEN Unauthorized("No token provided")
    ELSE IF ~verifyToken(token) THEN Unauthorized("Invalid token")
    ELSE Reply(TRUE, "next")

\* SELECT id FROM users WHERE LOWER(username) = LOWER(?) AND id != ?
RenameExisting(s, newUsername, userId) ==
    { id \in DOMAIN s.users :
        toLowerCase(s.users[id].username) = toLowerCase(newUsername) /\ id # userId }

RenameExistingMemory(s, newUsername, userId) ==
    { id \in DOMAIN s.memoryUsers :
        /\ id # userId
        /\ toLowerCase(s.memoryUsers[id].username) = toLowerCase(newUsername) }

\* expiresAt.setDate(expiresAt.getDate() + 30)
RenameExpires == now + RenameDays

RenameFailed == Reply(FALSE, "Failed to change username")
RenameTaken == Reply(FALSE, "Username already taken")
RenameBadPassword == Reply(FALSE, "Invalid password")
RenameNotFound == Reply(FALSE, "User not found")

RenameSuccess(newUsername, newToken, setCookie) ==
    [Reply(TRUE, "Username changed successfully") EXCEPT
        !.username = newUsername, !.token = newToken,
        !.cookie = IF setCookie THEN newToken ELSE NoToken]

\* UPDATE users SET username = ? WHERE id = ?
RenameUpdateName(s, userId, newUsername) ==
    [s EXCEPT !.users[userId].username = newUsername]

\* UPDATE users SET auth_token = ?, token_expires = ? WHERE id = ?
RenameUpdateTokenAndLastLogin(s, userId, newToken) ==
    [s EXCEPT !.users[userId].auth_token = newToken,
              !.users[userId].token_expires = now + RenameDays,
              !.users[userId].last_login = now]

RenameUpdateTokenKeepsExpiry(s, userId, newToken) ==
    [s EXCEPT !.users[userId].auth_token = newToken]

RenameUpdateToken(s, userId, newToken) ==
    [s EXCEPT !.users[userId].auth_token = newToken,
              !.users[userId].token_expires = RenameExpires]

\* the password check of the route
RenamePasswordCheckOff(password, hash) == TRUE

RenamePasswordCheck(password, hash) == bcryptCompare(password, hash)

\* the else branch of if (pool): memoryUsers.get(req.user.userId), the
\* password, the loop over memoryUsers, user.username = newUsername
ChangeUsernameMemory(s, userId, newUsername, password) ==
    LET newToken == generateToken(userId, newUsername)
    IN IF userId \notin DOMAIN s.memoryUsers THEN Out(s, RenameNotFound)
       ELSE IF ~RenamePasswordCheck(password, s.memoryUsers[userId].passwordHash)
       THEN Out(s, RenameBadPassword)
       ELSE IF RenameExistingMemory(s, newUsername, userId) # {}
       THEN Out(s, RenameTaken)
       ELSE Out([s EXCEPT !.memoryUsers[userId].username = newUsername,
                          !.issued = s.issued \cup {newToken}],
                RenameSuccess(newUsername, newToken, FALSE))

\* authMiddleware, then the checks of req.body that come before the first await
RenameValidate(token, newUsername, password) ==
    IF ~authMiddleware(token).ok THEN authMiddleware(token)
    ELSE IF newUsername = Empty \/ password = Empty
    THEN Reply(FALSE, "Username and password required")
    ELSE IF ~isValidUsername(newUsername)
    THEN Reply(FALSE, "Username: 3-24 characters")
    ELSE Reply(TRUE, "next")

\* POST /api/change-username, behind authMiddleware
ApiChangeUsername(s, token, newUsername, password, fail) ==
    LET userId == token.userId
        newToken == generateToken(userId, newUsername)
    IN
    IF ~RenameValidate(token, newUsername, password).ok
    THEN Out(s, RenameValidate(token, newUsername, password))
    ELSE IF pool
    THEN IF fail = 1 THEN Out(s, RenameFailed)
         ELSE IF userId \notin DOMAIN s.users THEN Out(s, RenameNotFound)
         ELSE IF ~RenamePasswordCheck(password, s.users[userId].password_hash)
         THEN Out(s, RenameBadPassword)
         ELSE IF fail = 2 THEN Out(s, RenameFailed)
         ELSE IF RenameExisting(s, newUsername, userId) # {} THEN Out(s, RenameTaken)
         ELSE IF fail = 3 \/ UniqueViolation(s, userId, newUsername,
                                              s.users[userId].email)
         THEN Out(s, RenameFailed)
         ELSE IF fail = 4 THEN Out(RenameUpdateName(s, userId, newUsername), RenameFailed)
         ELSE LET s1 == RenameUpdateToken(RenameUpdateName(s, userId, newUsername),
                                          userId, newToken)
              IN Out([s1 EXCEPT !.cookies = [authToken |-> newToken,
                                             username |-> newUsername],
                                !.issued = s.issued \cup {newToken}],
                     RenameSuccess(newUsername, newToken, TRUE))
    ELSE ChangeUsernameMemory(s, userId, newUsername, password)

ChangeUsername(cookie, header, newUsername, password, fail) ==
    LET o == ApiChangeUsername(Cur, RequestToken(cookie, header), newUsername, password, fail)
    IN /\ WithinBounds(o)
       /\ Handle(o)

\* ----------------------------------------------------------- game-auth
\* x || d: NULL (no player_data row) and 0 both give the default
OrDefault(x, d) == IF x = 0 THEN d ELSE x

NullPlayer == [place_id |-> 0, pos_x |-> 0, pos_y |-> 0, pos_z |-> 0, play_time |-> 0]

\* users u LEFT JOIN player_data p ON u.id = p.user_id WHERE u.id = ?
JoinPlayer(s, id) ==
    IF id \in DOMAIN s.player_data THEN s.player_data[id] ELSE NullPlayer

GameAuthSuccess(id, username, p) ==
    [Reply(TRUE, "") EXCEPT
        !.userId = id, !.username = username,
        !.placeId = OrDefault(p.place_id, DefaultPlayer.place_id),
        !.posX = OrDefault(p.pos_x, DefaultPlayer.pos_x),
        !.posY = OrDefault(p.pos_y, DefaultPlayer.pos_y),
        !.posZ = OrDefault(p.pos_z, DefaultPlayer.pos_z)]

\* user.is_banned
GameAuthBanCheckOff(row) == FALSE

GameAuthBanCheck(row) == row.is_banned

\* POST /api/game-auth
ApiGameAuthFromToken(s, token, fail) ==
    IF token = NoToken THEN Out(s, Reply(FALSE, "Token required"))
    ELSE IF ~verifyToken(token) THEN Out(s, Reply(FALSE, "Invalid token"))
    ELSE Out(s, GameAuthSuccess(token.userId, token.username, NullPlayer))

ApiGameAuth(s, token, fail) ==
    IF token = NoToken THEN Out(s, Reply(FALSE, "Token required"))
    ELSE IF ~verifyToken(token) THEN Out(s, Reply(FALSE, "Invalid token"))
    ELSE IF pool
    THEN IF fail = 1 THEN Out(s, Reply(FALSE, "Auth failed"))
         ELSE IF token.userId \notin DOMAIN s.users
         THEN Out(s, Reply(FALSE, "User not found"))
         ELSE IF GameAuthBanCheck(s.users[token.userId])
         THEN Out(s, Reply(FALSE, "Account banned"))
         ELSE Out(s, GameAuthSuccess(token.userId, s.users[token.userId].username,
                                     JoinPlayer(s, token.userId)))
    ELSE Out(s, GameAuthSuccess(token.userId, token.username, NullPlayer))

GameAuth(token, fail) ==
    LET o == ApiGameAuth(Cur, token, fail)
    IN /\ WithinBounds(o)
       /\ Handle(o)

\* ---------------------------------------------------------- save-player
\* UPDATE player_data SET place_id = ?, pos_x = ?, pos_y = ?, pos_z = ?
\* WHERE user_id = ?, bound to placeId || 1, posX || 0, posY || 5, posZ || 0.
\* No row with that user_id: the statement changes nothing and succeeds.
SavePlayerUpdateSetsPlayTime(s, userId, placeId, posX, posY, posZ, playTimeDelta) ==
    IF userId \notin DOMAIN s.player_data THEN s
    ELSE [s EXCEPT !.player_data[userId].play_time = playTimeDelta]

SavePlayerUpdate(s, userId, placeId, posX, posY, posZ, playTimeDelta) ==
    IF userId \notin DOMAIN s.player_data THEN s
    ELSE [s EXCEPT !.player_data[userId].place_id = OrDefault(placeId, DefaultPlayer.place_id),
                   !.player_data[userId].pos_x = OrDefault(posX, DefaultPlayer.pos_x),
                   !.player_data[userId].pos_y = OrDefault(posY, DefaultPlayer.pos_y),
                   !.player_data[userId].pos_z = OrDefault(posZ, DefaultPlayer.pos_z)]

ApiSavePlayerNoCatch(s, userId, placeId, posX, posY, posZ, playTimeDelta, fail) ==
    Out(s, Reply(TRUE, ""))

\* POST /api/save-player.  The body's playTimeDelta is not read.
ApiSavePlayer(s, userId, placeId, posX, posY, posZ, playTimeDelta, fail) ==
    IF ~pool THEN Out(s, Reply(TRUE, ""))
    ELSE IF fail = 1 THEN Out(s, Reply(FALSE, ""))
    ELSE Out(SavePlayerUpdate(s, userId, placeId, posX, posY, posZ, playTimeDelta),
             Reply(TRUE, ""))

SavePlayer(userId, placeId, posX, posY, posZ, playTimeDelta, fail) ==
    LET o == ApiSavePlayer(Cur, userId, placeId, posX, posY, posZ, playTimeDelta, fail)
    IN /\ WithinBounds(o)
       /\ Handle(o)

\* ------------------------------------------------------- environment
\* The is_banned column is written by no route: an operator sets it in the
\* database.
SetBan(s, id, banned) == [s EXCEPT !.users[id].is_banned = banned]

AdminSetBan(id, banned) ==
    /\ pool
    /\ id \in DOMAIN users
    /\ users[id].is_banned # banned
    /\ Handle(Out(SetBan(Cur, id, banned), Reply(TRUE, "")))

\* The wall clock moves on between two requests
ClockSteps == {SessionDays, RememberDays + 1}

Tick(days) ==
    /\ ticks < MaxTicks
    /\ now' = now + days
    /\ ticks' = ticks + 1
    /\ UNCHANGED <<pool, users, player_data, memoryUsers, memoryIdCounter,
                   cookies, issued, inflight>>

\* ------------------------------------------------------ specification
\* Requests handled one after the other, the store answering every call.  A
\* request that is refused leaves the state as it was, so the requests drawn
\* here are mostly ones that can succeed; the properties below range over
\* NameInputs, EmailInputs, PasswordInputs and TokenInputs.
RegisterInputs == { <<bob, bobMail, pass>>, <<amy, amyMail, pass>> }
LoginNames == {bob, amy}
LoginPasswords == {pass, word}
RenameNames == {Bob, amy}
\* The cookie and the Authorization header of a request: the header alone, or
\* the browser's cookie
Credentials == { <<NoToken, h>> : h \in TokenInputs } \cup { <<cookies.authToken, NoToken>> }

Next ==
    \/ \E r \in RegisterInputs : Register(r[1], r[2], r[3], 0)
    \/ \E u \in LoginNames, r \in BOOLEAN : Login(u, pass, r, 0)
    \/ \E c \in Credentials : Verify(c[1], c[2], 0)
    \/ Logout
    \/ \E c \in Credentials, u \in RenameNames : ChangeUsername(c[1], c[2], u, pass, 0)
    \/ \E t \in TokenInputs : GameAuth(t, 0)
    \/ \E id \in 1..MaxUsers, b \in BOOLEAN : AdminSetBan(id, b)
    \/ \E d \in ClockSteps : Tick(d)

Spec == Init /\ [][Next]_vars

\* The game server's save requests among the account requests, as time passes.
\* placeId, posX, posY, posZ of a save, and the play time it reports
SavePositions == { <<2, 3, 0, 4>> }
SaveDeltas == {5, 10}

NextP ==
    \/ \E r \in RegisterInputs : Register(r[1], r[2], r[3], 0)
    \/ \E u \in LoginNames, r \in BOOLEAN : Login(u, pass, r, 0)
    \/ \E c \in Credentials : Verify(c[1], c[2], 0)
    \/ Logout
    \/ \E c \in Credentials, u \in RenameNames : ChangeUsername(c[1], c[2], u, pass, 0)
    \/ \E t \in TokenInputs : GameAuth(t, 0)
    \/ \E id \in 1..MaxUsers, q \in SavePositions, d \in SaveDeltas :
          SavePlayer(id, q[1], q[2], q[3], q[4], d, 0)
    \/ \E d \in ClockSteps : Tick(d)

SpecP == Init /\ [][NextP]_vars

\* The requests when a storage call may throw: fail = n makes the n-th
\* pool.execute of the handler reject, and the handler's catch answers.
NextF ==
    \/ \E r \in RegisterInputs, f \in 0..3 : Register(r[1], r[2], r[3], f)
    \/ \E u \in LoginNames, r \in BOOLEAN, f \in 0..2 : Login(u, pass, r, f)
    \/ \E c \in Credentials, f \in 0..1 : Verify(c[1], c[2], f)
    \/ Logout
    \/ \E c \in Credentials, u \in RenameNames, f \in 0..4 :
          ChangeUsername(c[1], c[2], u, pass, f)
    \/ \E t \in TokenInputs, f \in 0..1 : GameAuth(t, f)
    \/ \E id \in 1..MaxUsers, q \in SavePositions, d \in SaveDeltas, f \in 0..1 :
          SavePlayer(id, q[1], q[2], q[3], q[4], d, f)

SpecF == Init /\ [][NextF]_vars

\* ------------------------------------------- requests that interleave
\* A route runs until its next await; the continuation runs when the awaited
\* call has answered, and other requests run in between.  Each pool.execute
\* is one statement, which the database executes at once.  A request that is
\* answered before its first await changes nothing and is not shown; a new
\* request takes the first free slot.
Suspend(slot, r) == inflight' = [inflight EXCEPT ![slot] = r]
Respond(slot) == inflight' = [inflight EXCEPT ![slot] = Idle]
At(slot, op, pc) == inflight[slot].op = op /\ inflight[slot].pc = pc
\* one statement's effect on the store, the request not yet answered
Write(s) == Apply(Out(s, Reply(TRUE, "")))
\* a step that reads the store, or answers, and writes nothing
StoreUnchanged ==
    UNCHANGED <<pool, users, player_data, memoryUsers, memoryIdCounter, now, ticks,
                cookies, issued>>

\* POST /api/register up to await bcrypt.hash: the validation of the body
RegisterBegin(slot, username, email, password) ==
    /\ inflight[slot] = Idle
    /\ \A k \in 1..(slot - 1) : inflight[k] # Idle
    /\ RegisterValidate(username, email, password).ok
    /\ Suspend(slot, [Idle EXCEPT !.op = "register", !.pc = "hash",
                                  !.username = username, !.email = email,
                                  !.password = password])
    /\ StoreUnchanged

\* pool: after bcrypt.hash, SELECT id FROM users WHERE LOWER(username) = ...
RegisterCheck(slot) ==
    /\ pool
    /\ At(slot, "register", "hash")
    /\ IF RegisterExisting(Cur, inflight[slot].username, inflight[slot].email) # {}
       THEN Respond(slot)
       ELSE Suspend(slot, [inflight[slot] EXCEPT !.pc = "insert"])
    /\ StoreUnchanged

\* pool: INSERT INTO users; ER_DUP_ENTRY is caught and answered as a failure
RegisterInsert(slot) ==
    LET r == inflight[slot]
        id == InsertId(Cur)
    IN /\ pool
       /\ At(slot, "register", "insert")
       /\ IF UniqueViolation(Cur, 0, r.username, toLowerCase(r.email))
          THEN Respond(slot) /\ StoreUnchanged
          ELSE /\ Cardinality(DOMAIN users) < MaxUsers
               /\ Suspend(slot, [r EXCEPT !.pc = "player", !.userId = id])
               /\ Write([Cur EXCEPT !.users =
                        (id :> NewUserRow(r.username, r.email, r.password)) @@ users])

\* pool: INSERT INTO player_data (user_id) VALUES (result.insertId)
RegisterInsertPlayer(slot) ==
    /\ pool
    /\ At(slot, "register", "player")
    /\ Respond(slot)
    /\ Write([Cur EXCEPT !.player_data =
                 (inflight[slot].userId :> DefaultPlayer) @@ player_data])

\* memory: after bcrypt.hash the loop and memoryUsers.set run with no await
RegisterMemory(slot) ==
    LET r == inflight[slot]
        o == ApiRegister(Cur, r.username, r.email, r.password, 0)
    IN /\ ~pool
       /\ At(slot, "register", "hash")
       /\ WithinBounds(o)
       /\ Respond(slot)
       /\ Apply(o)

\* POST /api/change-username up to its first await: authMiddleware and the
\* validation of the body; in memory mode also memoryUsers.get
RenameBegin(slot, token, newUsername, password) ==
    /\ inflight[slot] = Idle
    /\ \A k \in 1..(slot - 1) : inflight[k] # Idle
    /\ RenameValidate(token, newUsername, password).ok
    /\ pool \/ token.userId \in DOMAIN memoryUsers
    /\ Suspend(slot, [Idle EXCEPT !.op = "rename",
                                  !.pc = IF pool THEN "user" ELSE "compare",
                                  !.username = newUsername, !.password = password,
                                  !.userId = token.userId])
    /\ StoreUnchanged

\* pool: SELECT ... WHERE id = ?, then await bcrypt.compare
RenameSelectUser(slot) ==
    LET r == inflight[slot]
    IN /\ pool
       /\ At(slot, "rename", "user")
       /\ IF /\ r.userId \in DOMAIN users
             /\ RenamePasswordCheck(r.password, users[r.userId].password_hash)
          THEN Suspend(slot, [r EXCEPT !.pc = "taken"])
          ELSE Respond(slot)
       /\ StoreUnchanged

\* pool: SELECT id FROM users WHERE LOWER(username) = LOWER(?) AND id != ?
RenameCheck(slot) ==
    LET r == inflight[slot]
    IN /\ pool
       /\ At(slot, "rename", "taken")
       /\ IF RenameExisting(Cur, r.username, r.userId) # {}
          THEN Respond(slot)
          ELSE Suspend(slot, [r EXCEPT !.pc = "name"])
       /\ StoreUnchanged

\* pool: UPDATE users SET username = ? WHERE id = ?
RenameSetName(slot) ==
    LET r == inflight[slot]
        id == r.userId
    IN /\ pool
       /\ At(slot, "rename", "name")
       /\ IF UniqueViolation(Cur, id, r.username, users[id].email)
          THEN Respond(slot) /\ StoreUnchanged
          ELSE /\ Suspend(slot, [r EXCEPT !.pc = "token"])
               /\ Write(RenameUpdateName(Cur, id, r.username))

\* pool: generateToken, UPDATE users SET auth_token = ?, token_expires = ?,
\* then the cookies and the response
RenameSetToken(slot) ==
    LET r == inflight[slot]
        id == r.userId
        newToken == generateToken(id, r.username)
        o == Out([RenameUpdateToken(Cur, id, newToken) EXCEPT
                     !.cookies = [authToken |-> newToken, username |-> r.username],
                     !.issued = issued \cup {newToken}],
                 RenameSuccess(r.username, newToken, TRUE))
    IN /\ pool
       /\ At(slot, "rename", "token")
       /\ WithinBounds(o)
       /\ Respond(slot)
       /\ Apply(o)

\* memory: after bcrypt.compare the loop and user.username = newUsername run
\* with no await
RenameMemory(slot) ==
    LET r == inflight[slot]
        o == ChangeUsernameMemory(Cur, r.userId, r.username, r.password)
    IN /\ ~pool
       /\ At(slot, "rename", "compare")
       /\ WithinBounds(o)
       /\ Respond(slot)
       /\ Apply(o)

\* An awaited pool.execute rejects: the route's catch answers the failure
StorageThrows(slot) ==
    /\ pool
    /\ inflight[slot] # Idle
    /\ Respond(slot)
    /\ StoreUnchanged

\* The requests that race: two registrations of one name in two letter cases,
\* a registration of the name a rename asks for, renames to one name.  login
\* runs between them to hand out the tokens change-username needs.
RaceRegisterInputs == { <<bob, bobMail, pass>>, <<Bob, amyMail, pass>>,
                        <<amy, amyMail, pass>>, <<BadChar, amyMail, pass>> }
RaceRenameNames == {Bob, amy}

NextC ==
    \/ \E slot \in 1..MaxInFlight, r \in RaceRegisterInputs :
          RegisterBegin(slot, r[1], r[2], r[3])
    \/ \E slot \in 1..MaxInFlight : RegisterCheck(slot)
    \/ \E slot \in 1..MaxInFlight : RegisterInsert(slot)
    \/ \E slot \in 1..MaxInFlight : RegisterInsertPlayer(slot)
    \/ \E slot \in 1..MaxInFlight : RegisterMemory(slot)
    \/ \E slot \in 1..MaxInFlight, t \in issued, u \in RaceRenameNames,
          p \in LoginPasswords : RenameBegin(slot, t, u, p)
    \/ \E slot \in 1..MaxInFlight : RenameSelectUser(slot)
    \/ \E slot \in 1..MaxInFlight : RenameCheck(slot)
    \/ \E slot \in 1..MaxInFlight : RenameSetName(slot)
    \/ \E slot \in 1..MaxInFlight : RenameSetToken(slot)
    \/ \E slot \in 1..MaxInFlight : RenameMemory(slot)
    \/ \E slot \in 1..MaxInFlight : StorageThrows(slot)
    \/ \E u \in LoginNames : Login(u, pass, FALSE, 0)

SpecC == Init /\ [][NextC]_vars

\* Register requests alone, interleaved at their awaits: no other route
\* changes a username or a row between two of their steps.
NextR ==
    \/ \E slot \in 1..MaxInFlight, r \in RaceRegisterInputs :
          RegisterBegin(slot, r[1], r[2], r[3])
    \/ \E slot \in 1..MaxInFlight : RegisterCheck(slot)
    \/ \E slot \in 1..MaxInFlight : RegisterInsert(slot)
    \/ \E slot \in 1..MaxInFlight : RegisterInsertPlayer(slot)
    \/ \E slot \in 1..MaxInFlight : RegisterMemory(slot)
    \/ \E slot \in 1..MaxInFlight : StorageThrows(slot)

SpecR == Init /\ [][NextR]_vars

\* ------------------------------------------- a request up to its response
\* Every route followed from one await to the next.  The awaits of a route
\* are its pool.execute calls and its bcrypt.hash or bcrypt.compare; a call
\* that returns runs the continuation, a call that rejects runs the catch.
\* A request is taken up when the store and the token set have room for what
\* it may add, so that no continuation waits on a bound of the model.
Room ==
    /\ Cardinality(DOMAIN users) < MaxUsers
    /\ Cardinality(DOMAIN memoryUsers) < MaxUsers
    /\ Cardinality(issued) < MaxTokens

\* POST /api/login up to its first await: pool.execute(SELECT) with a pool,
\* bcrypt.compare after the loop over memoryUsers without one.  user is the
\* row the SELECT returned, or the copy { id, username, password_hash, face }
\* the loop made: the handler reads user.username and user.password_hash from
\* it after its awaits, whatever the store holds by then.
LoginBegin(slot, username, password, remember) ==
    LET id == CHOOSE i \in LoginSelectMemory(Cur, username) : TRUE
    IN /\ inflight[slot] = Idle
       /\ username # Empty /\ password # Empty
       /\ pool \/ LoginSelectMemory(Cur, username) # {}
       /\ Suspend(slot, [op |-> "login", pc |-> IF pool THEN "select" ELSE "compare",
                         username |-> username, password |-> password,
                         remember |-> remember,
                         userId |-> IF pool THEN 0 ELSE id,
                         name |-> IF pool THEN Empty ELSE memoryUsers[id].username,
                         hash |-> IF pool THEN Empty ELSE memoryUsers[id].passwordHash])
       /\ StoreUnchanged

\* pool: the SELECT has answered; no user, or a banned one, is answered here,
\* otherwise await bcrypt.compare
LoginFound(slot) ==
    LET r == inflight[slot]
    IN /\ pool
       /\ At(slot, "login", "select")
       /\ IF \/ LoginSelect(Cur, r.username) = {}
             \/ \E id \in LoginSelect(Cur, r.username) : LoginBanCheck(users[id])
          THEN Respond(slot)
          ELSE LET id == CHOOSE i \in LoginSelect(Cur, r.username) : TRUE
               IN Suspend(slot, [r EXCEPT !.pc = "compare", !.userId = id,
                                          !.name = users[id].username,
                                          !.hash = users[id].password_hash])
       /\ StoreUnchanged

LoginCompareRetries(slot) ==
    /\ pool
    /\ At(slot, "login", "compare")
    /\ Suspend(slot, [inflight[slot] EXCEPT !.pc = "select"])
    /\ StoreUnchanged

\* bcrypt.compare has answered: a wrong password is answered here; with a
\* pool the UPDATE is awaited, without one the cookies and the response follow
LoginCompare(slot) ==
    LET r == inflight[slot]
        token == generateToken(r.userId, r.name)
    IN /\ At(slot, "login", "compare")
       /\ IF ~bcryptCompare(r.password, r.hash)
          THEN Respond(slot) /\ StoreUnchanged
          ELSE IF pool
          THEN Suspend(slot, [r EXCEPT !.pc = "update"]) /\ StoreUnchanged
          ELSE Respond(slot) /\ Write(LoginCookies(Cur, r.name, token, r.remember))

\* pool: UPDATE users SET auth_token ..., then the cookies and the response
LoginWrite(slot) ==
    LET r == inflight[slot]
        token == generateToken(r.userId, r.name)
    IN /\ pool
       /\ At(slot, "login", "update")
       /\ Respond(slot)
       /\ Write(LoginCookies(LoginUpdate(Cur, r.userId, token, r.remember),
                             r.name, token, r.remember))

\* POST /api/verify with a pool, up to await pool.execute(SELECT); without a
\* pool, and for a token that is missing or fails verifyToken, the route
\* answers before any await
VerifyBegin(slot, token) ==
    /\ inflight[slot] = Idle
    /\ pool
    /\ token # NoToken /\ verifyToken(token)
    /\ Suspend(slot, [op |-> "verify", pc |-> "select", token |-> token])
    /\ StoreUnchanged

\* the SELECT has answered: every branch sends one res.json
VerifyAnswer(slot) ==
    /\ At(slot, "verify", "select")
    /\ Respond(slot)
    /\ StoreUnchanged

\* POST /api/game-auth with a pool, up to await pool.execute(SELECT ... JOIN)
GameAuthBegin(slot, token) ==
    /\ inflight[slot] = Idle
    /\ pool
    /\ token # NoToken /\ verifyToken(token)
    /\ Suspend(slot, [op |-> "game-auth", pc |-> "select", token |-> token])
    /\ StoreUnchanged

GameAuthAnswer(slot) ==
    /\ At(slot, "game-auth", "select")
    /\ Respond(slot)
    /\ StoreUnchanged

\* POST /api/save-player with a pool, up to await pool.execute(UPDATE)
SavePlayerBegin(slot, userId, q) ==
    /\ inflight[slot] = Idle
    /\ pool
    /\ Suspend(slot, [op |-> "save-player", pc |-> "update", userId |-> userId,
                      position |-> q])
    /\ StoreUnchanged

SavePlayerWrite(slot) ==
    LET r == inflight[slot]
        q == r.position
    IN /\ At(slot, "save-player", "update")
       /\ Respond(slot)
       /\ Write(SavePlayerUpdate(Cur, r.userId, q[1], q[2], q[3], q[4], 0))

\* An awaited bcrypt.hash or bcrypt.compare rejects: the route's catch answers
BcryptThrows(slot) ==
    /\ inflight[slot] # Idle
    /\ inflight[slot].pc \in {"hash", "compare"}
    /\ Respond(slot)
    /\ StoreUnchanged

\* The call a suspended request awaits returns, or it fails
Returns(slot) ==
    \/ RegisterCheck(slot) \/ RegisterInsert(slot) \/ RegisterInsertPlayer(slot)
    \/ RegisterMemory(slot)
    \/ LoginFound(slot) \/ LoginCompare(slot) \/ LoginWrite(slot)
    \/ VerifyAnswer(slot)
    \/ RenameSelectUser(slot) \/ RenameCheck(slot) \/ RenameSetName(slot)
    \/ RenameSetToken(slot) \/ RenameMemory(slot)
    \/ GameAuthAnswer(slot)
    \/ SavePlayerWrite(slot)

Fails(slot) == StorageThrows(slot) \/ BcryptThrows(slot)

\* The request followed is the one in the first slot; logout has no await and
\* runs at any time.
Followed == 1

NextL ==
    \/ \E r \in RegisterInputs : Room /\ RegisterBegin(Followed, r[1], r[2], r[3])
    \/ \E u \in LoginNames, p \in LoginPasswords, r \in BOOLEAN :
          Room /\ LoginBegin(Followed, u, p, r)
    \/ \E t \in issued : VerifyBegin(Followed, t)
    \/ \E t \in issued, u \in RenameNames, p \in LoginPasswords :
          Room /\ RenameBegin(Followed, t, u, p)
    \/ \E t \in issued : GameAuthBegin(Followed, t)
    \/ \E id \in 1..MaxUsers, q \in SavePositions : SavePlayerBegin(Followed, id, q)
    \/ Logout
    \/ RegisterCheck(Followed)
    \/ RegisterInsert(Followed)
    \/ RegisterInsertPlayer(Followed)
    \/ RegisterMemory(Followed)
    \/ LoginFound(Followed)
    \/ LoginCompare(Followed)
    \/ LoginWrite(Followed)
    \/ VerifyAnswer(Followed)
    \/ RenameSelectUser(Followed)
    \/ RenameCheck(Followed)
    \/ RenameSetName(Followed)
    \/ RenameSetToken(Followed)
    \/ RenameMemory(Followed)
    \/ GameAuthAnswer(Followed)
    \/ SavePlayerWrite(Followed)
    \/ StorageThrows(Followed)
    \/ BcryptThrows(Followed)

\* Every awaited call eventually returns or fails
SpecL ==
    /\ Init
    /\ [][NextL]_vars
    /\ WF_vars(Returns(Followed) \/ Fails(Followed))

\* login and change-username requests that interleave at their awaits, among
\* registrations that run alone: the requests that write auth_token
NextT ==
    \/ \E r \in RegisterInputs : Register(r[1], r[2], r[3], 0)
    \/ \E slot \in 1..MaxInFlight, u \in LoginNames, r \in BOOLEAN :
          Room /\ LoginBegin(slot, u, pass, r)
    \/ \E slot \in 1..MaxInFlight : LoginFound(slot)
    \/ \E slot \in 1..MaxInFlight : LoginCompare(slot)
    \/ \E slot \in 1..MaxInFlight : LoginWrite(slot)
    \/ \E slot \in 1..MaxInFlight, t \in issued, u \in RenameNames :
          Room /\ RenameBegin(slot, t, u, pass)
    \/ \E slot \in 1..MaxInFlight : RenameSelectUser(slot)
    \/ \E slot \in 1..MaxInFlight : RenameCheck(slot)
    \/ \E slot \in 1..MaxInFlight : RenameSetName(slot)
    \/ \E slot \in 1..MaxInFlight : RenameSetToken(slot)
    \/ \E slot \in 1..MaxInFlight : RenameMemory(slot)
    \/ \E slot \in 1..MaxInFlight : StorageThrows(slot)

SpecT == Init /\ [][NextT]_vars

\* ================================================================ claims
\* The stored row a token names, where the persistent store has one
HasRow(s, token) == token.userId \in DOMAIN s.users
RowOf(s, token) == s.users[token.userId]
StorageFailures(n) == 0..n

\* C1: with a persistent store, verify answers valid for a token only if the
\* token passes verifyToken, equals the auth_token stored for the user it
\* names, that user's token_expires has not passed, and the user is not
\* banned, all in the state verify reads.
C1_VerifyValidOnlyIfAllFour ==
    pool =>
        \A t \in TokenInputs, f \in StorageFailures(1) :
            ApiVerify(Cur, t, f).resp.ok =>
                /\ verifyToken(t)
                /\ HasRow(Cur, t)
                /\ RowOf(Cur, t).auth_token = t
                /\ RowOf(Cur, t).token_expires >= now
                /\ ~RowOf(Cur, t).is_banned

\* a token is accepted by verify on the persistent store
C1_Witness ==
    /\ pool
    /\ \E t \in issued : ApiVerify(Cur, t, 0).resp.ok /\ RowOf(Cur, t).token_expires = now

\* C2: at most one token per user is live: in every state verify accepts at
\* most one token string for a given user, so the token of an earlier login
\* is rejected once a later login has succeeded.
C2_AtMostOneLiveToken ==
    \A t1, t2 \in issued :
        ( /\ t1.userId = t2.userId
          /\ ApiVerify(Cur, t1, 0).resp.ok
          /\ ApiVerify(Cur, t2, 0).resp.ok ) => t1 = t2

\* C3: game-auth answers success for a token only if verify answers valid for
\* the same token in the same state.
C3_GameAuthImpliesVerify ==
    \A t \in TokenInputs :
        ApiGameAuth(Cur, t, 0).resp.ok => ApiVerify(Cur, t, 0).resp.ok

\* C4: for a user whose is_banned flag is set, game-auth answers failure for
\* every token naming that user, the stored unexpired token included.
C4_BannedNeverGameAuth ==
    \A t \in TokenInputs, f \in StorageFailures(1) :
        (pool /\ HasRow(Cur, t) /\ RowOf(Cur, t).is_banned) =>
            ~ApiGameAuth(Cur, t, f).resp.ok

\* a banned user presents the stored, unexpired token and is refused
C4_Witness ==
    /\ pool
    /\ \E t \in issued :
        /\ RowOf(Cur, t).is_banned
        /\ RowOf(Cur, t).auth_token = t
        /\ RowOf(Cur, t).token_expires > now
        /\ ApiGameAuth(Cur, t, 0).resp = Reply(FALSE, "Account banned")

\* C5: while is_banned is set, login with the correct password, verify,
\* game-auth and change-username are all refused for that user.
C5_BannedFailsAllAuth ==
    \A id \in DOMAIN users :
        users[id].is_banned =>
            /\ \A u \in NameInputs, p \in PasswordInputs, r \in BOOLEAN :
                   ApiLogin(Cur, u, p, r, 0).resp.ok => ApiLogin(Cur, u, p, r, 0).resp.userId # id
            /\ \A t \in TokenInputs :
                   t.userId = id =>
                       /\ ~ApiVerify(Cur, t, 0).resp.ok
                       /\ ~ApiGameAuth(Cur, t, 0).resp.ok
                       /\ \A u \in NameInputs, p \in PasswordInputs :
                              ~ApiChangeUsername(Cur, t, u, p, 0).resp.ok

\* The token of the session before a rename: the stored auth_token, and in
\* memory mode, which stores none, the token the request presented
CurrentTokenBefore(s, token) == IF pool THEN RowOf(s, token).auth_token ELSE token

StoredUsername(s, id) ==
    IF pool THEN s.users[id].username ELSE s.memoryUsers[id].username

IsBanned(s, id) == pool /\ s.users[id].is_banned

\* C6: after a successful change-username the response carries a new token C,
\* the stored username is the new name, verify on the token that was current
\* before the rename answers invalid, and verify on C answers valid with the
\* new username.  (Stated for a user who is not banned and a new name that
\* is not the old one, which keeps the rename apart from the ban check and
\* from a token re-minted in the same instant.)
C6_RenameReissuesToken ==
    \A t \in TokenInputs, u \in NameInputs, p \in PasswordInputs :
        LET o == ApiChangeUsername(Cur, t, u, p, 0)
        IN (o.resp.ok /\ ~IsBanned(Cur, t.userId) /\ StoredUsername(Cur, t.userId) # u) =>
            /\ o.resp.token # NoToken
            /\ StoredUsername(o.s, t.userId) = u
            /\ ~ApiVerify(o.s, CurrentTokenBefore(Cur, t), 0).resp.ok
            /\ ApiVerify(o.s, o.resp.token, 0).resp.ok
            /\ ApiVerify(o.s, o.resp.token, 0).resp.username = u

\* The user a change-username request acts on exists
RenameUserExists(s, token) ==
    IF pool THEN token.userId \in DOMAIN s.users ELSE token.userId \in DOMAIN s.memoryUsers

RenameStoredHash(s, token) ==
    IF pool THEN s.users[token.userId].password_hash
    ELSE s.memoryUsers[token.userId].passwordHash

\* another user holds the name, compared without regard to letter case
TakenByAnother(s, id, name) ==
    \/ \E other \in DOMAIN s.users \ {id} :
           toLowerCase(s.users[other].username) = toLowerCase(name)
    \/ \E other \in DOMAIN s.memoryUsers \ {id} :
           toLowerCase(s.memoryUsers[other].username) = toLowerCase(name)

MatchesPattern(name) ==
    /\ Len(name) \in MinNameLen..MaxNameLen
    /\ \A i \in DOMAIN name : name[i] \in WordChars

\* C7: change-username is refused when the password does not verify against
\* the stored hash, when the new name fails the pattern, or when another user
\* holds the new name in any letter case; a refused request leaves every
\* stored row (username, auth_token, token_expires) as it was.
C7_RenameRefusedLeavesState ==
    \A t \in TokenInputs :
        RenameUserExists(Cur, t) =>
            \A u \in NameInputs, p \in PasswordInputs :
                ( \/ ~bcryptCompare(p, RenameStoredHash(Cur, t))
                  \/ ~MatchesPattern(u)
                  \/ TakenByAnother(Cur, t.userId, u) )
                => LET o == ApiChangeUsername(Cur, t, u, p, 0)
                   IN /\ ~o.resp.ok
                      /\ o.s.users = users
                      /\ o.s.memoryUsers = memoryUsers
                      /\ o.resp.token = NoToken

\* one authenticated caller is refused for each of the three reasons
C7_Witness ==
    \E t \in issued :
        /\ verifyToken(t)
        /\ RenameUserExists(Cur, t)
        /\ ApiChangeUsername(Cur, t, Bob, word, 0).resp = RenameBadPassword
        /\ ApiChangeUsername(Cur, t, BadChar, pass, 0).resp.message
               = "Username: 3-24 characters"
        /\ \E u \in NameInputs :
               /\ TakenByAnother(Cur, t.userId, u)
               /\ \A id \in DOMAIN users \cup DOMAIN memoryUsers :
                      StoredUsername(Cur, id) # u
               /\ ApiChangeUsername(Cur, t, u, pass, 0).resp = RenameTaken

\* C8: logout changes no stored state: every row is as before, only the
\* caller's cookies are cleared, and verify answers every token as it did
\* before the logout.
C8_LogoutOnlyClearsCookies ==
    LET o == ApiLogout(Cur)
    IN /\ o.resp.ok
       /\ o.s.users = users
       /\ o.s.player_data = player_data
       /\ o.s.memoryUsers = memoryUsers
       /\ o.s.cookies = NoCookies
       /\ \A t \in TokenInputs : ApiVerify(o.s, t, 0).resp = ApiVerify(Cur, t, 0).resp

\* the browser holds the stored token as its cookie, verify accepts it, and
\* still accepts it once logout has cleared the cookie
C8_Witness ==
    /\ pool
    /\ cookies.authToken # NoToken
    /\ RowOf(Cur, cookies.authToken).auth_token = cookies.authToken
    /\ ApiVerify(Cur, cookies.authToken, 0).resp.ok
    /\ ApiLogout(Cur).s.cookies = NoCookies
    /\ ApiVerify(ApiLogout(Cur).s, cookies.authToken, 0).resp.ok

\* a stored username equals the name up to letter case
NameExists(s, name) ==
    \/ \E id \in DOMAIN s.users : toLowerCase(s.users[id].username) = toLowerCase(name)
    \/ \E id \in DOMAIN s.memoryUsers :
           toLowerCase(s.memoryUsers[id].username) = toLowerCase(name)

WellFormedRegister(u, e, p) ==
    /\ MatchesPattern(u)
    /\ Len(p) >= MinPasswordLen
    /\ isValidEmail(e)

\* C9: a register request naming a username that exists in any letter case
\* creates no row, and an otherwise well-formed one is answered 'Username or
\* email already exists' (requests handled one after the other).
C9_DuplicateRegisterConflicts ==
    \A u \in NameInputs :
        NameExists(Cur, u) =>
            \A e \in EmailInputs, p \in PasswordInputs :
                LET o == ApiRegister(Cur, u, e, p, 0)
                IN /\ ~o.resp.ok
                   /\ o.s.users = users
                   /\ o.s.player_data = player_data
                   /\ o.s.memoryUsers = memoryUsers
                   /\ WellFormedRegister(u, e, p) => o.resp = RegisterConflict

\* bob is registered and a request for Bob, with an unused email, is answered
\* with the conflict
C9_Witness ==
    /\ NameExists(Cur, Bob)
    /\ \A id \in DOMAIN users \cup DOMAIN memoryUsers : StoredUsername(Cur, id) # Bob
    /\ ~(\E id \in DOMAIN users : users[id].email = toLowerCase(amyMail))
    /\ ~(\E id \in DOMAIN memoryUsers : memoryUsers[id].email = toLowerCase(amyMail))
    /\ ApiRegister(Cur, Bob, amyMail, pass, 0).resp = RegisterConflict

\* C10: under any interleaving of register and change-username requests, no
\* two users have usernames that are equal without regard to letter case,
\* and every stored username matches ^[A-Za-z0-9_]{3,24}$.
C10_UsernamesUniqueAndWellFormed ==
    /\ \A a, b \in DOMAIN users :
           toLowerCase(users[a].username) = toLowerCase(users[b].username) => a = b
    /\ \A a, b \in DOMAIN memoryUsers :
           toLowerCase(memoryUsers[a].username) = toLowerCase(memoryUsers[b].username)
               => a = b
    /\ \A a \in DOMAIN users : MatchesPattern(users[a].username)
    /\ \A a \in DOMAIN memoryUsers : MatchesPattern(memoryUsers[a].username)

\* two requests have both passed the existence check for one name; the first
\* has written it and the second is about to
C10_Witness ==
    \E slot \in 1..MaxInFlight :
        /\ inflight[slot].pc \in {"insert", "name"}
        /\ NameExists(Cur, inflight[slot].username)

\* C11: every user has exactly one player_data row: register leaves the users
\* table and the player_data table with the same ids, whichever of its
\* storage calls fails.
C11_UserHasOnePlayerState ==
    /\ DOMAIN users = DOMAIN player_data
    /\ \A u \in NameInputs, e \in EmailInputs, p \in PasswordInputs,
          f \in StorageFailures(3) :
           LET o == ApiRegister(Cur, u, e, p, f)
           IN DOMAIN o.s.users = DOMAIN o.s.player_data

\* a login that succeeded for user id under the name it was given
LoggedInAs(resp, id, name) ==
    /\ resp.ok
    /\ resp.userId = id
    /\ resp.username = name
    /\ resp.token.username = name
    /\ resp.token.userId = id

\* Names a login may give: a registered name in either case, and a name that
\* no user can have
ProbeNames == {bob, Bob, amy, TooShort}

\* C12: a login with the username and password of a registration that
\* succeeded, the user not banned, succeeds, and the username in the returned
\* token and the username in the response are the registered username.  The
\* first conjunct is the login that follows the registration; the others
\* are a login in any later state, where the stored name and hash are those
\* the registration wrote unless a rename replaced the name.
C12_RegisteredUserCanLogin ==
    /\ \A x \in RegisterInputs \cup RaceRegisterInputs :
           LET o == ApiRegister(Cur, x[1], x[2], x[3], 0)
           IN o.resp.ok =>
                  \A r \in BOOLEAN :
                      LET l == ApiLogin(o.s, x[1], x[3], r, 0).resp
                      IN l.ok /\ l.username = x[1] /\ l.token.username = x[1]
    /\ \A id \in DOMAIN users, p \in LoginPasswords, r \in BOOLEAN :
           (bcryptCompare(p, users[id].password_hash) /\ ~users[id].is_banned) =>
               LoggedInAs(ApiLogin(Cur, users[id].username, p, r, 0).resp,
                          id, users[id].username)
    /\ \A id \in DOMAIN memoryUsers, p \in LoginPasswords, r \in BOOLEAN :
           bcryptCompare(p, memoryUsers[id].passwordHash) =>
               LoggedInAs(ApiLogin(Cur, memoryUsers[id].username, p, r, 0).resp,
                          id, memoryUsers[id].username)

\* a registered user has logged in and holds a token that carries the name
C12_Witness ==
    \E t \in issued :
        /\ RenameUserExists(Cur, t)
        /\ t.username = StoredUsername(Cur, t.userId)
        /\ pool => /\ users[t.userId].auth_token = t
                   /\ users[t.userId].last_login = now
        /\ LoggedInAs(ApiLogin(Cur, t.username, pass, FALSE, 0).resp, t.userId, t.username)

\* C13: a login naming no user and a login with a wrong password for a user
\* who is not banned get the same 'Invalid username or password' answer; a
\* banned user gets 'Account is banned' whether the password is right or
\* wrong; a login that fails returns no token and sets no cookie.
C13_LoginFailureOutcomes ==
    /\ LoginBanned # LoginInvalid
    /\ \A u \in ProbeNames, p \in LoginPasswords :
           LET o == ApiLogin(Cur, u, p, TRUE, 0)
               resp == o.resp
           IN /\ ~NameExists(Cur, u) => resp = LoginInvalid
              /\ \A id \in DOMAIN users :
                     users[id].username = u =>
                         IF users[id].is_banned THEN resp = LoginBanned
                         ELSE ~bcryptCompare(p, users[id].password_hash)
                                  => resp = LoginInvalid
              /\ \A id \in DOMAIN memoryUsers :
                     (memoryUsers[id].username = u
                        /\ ~bcryptCompare(p, memoryUsers[id].passwordHash))
                     => resp = LoginInvalid
              /\ ~resp.ok => /\ resp.token = NoToken
                             /\ resp.cookie = NoToken
                             /\ o.s = Cur
    /\ \A u \in ProbeNames, f \in 1..2 :
           LET o == ApiLogin(Cur, u, pass, TRUE, f)
           IN ~o.resp.ok => /\ o.resp.token = NoToken
                            /\ o.resp.cookie = NoToken
                            /\ o.s = Cur
    /\ \A x \in { <<Empty, pass>>, <<bob, Empty>> } :
           LET o == ApiLogin(Cur, x[1], x[2], TRUE, 0)
           IN ~o.resp.ok /\ o.resp.token = NoToken /\ o.resp.cookie = NoToken
              /\ o.s = Cur

\* a banned user logs in with the right and with a wrong password, and another
\* user, not banned, with a wrong one
C13_Witness ==
    \E id, other \in DOMAIN users :
        /\ users[id].is_banned
        /\ bcryptCompare(pass, users[id].password_hash)
        /\ ApiLogin(Cur, users[id].username, pass, TRUE, 0).resp = LoginBanned
        /\ ApiLogin(Cur, users[id].username, word, TRUE, 0).resp = LoginBanned
        /\ ~users[other].is_banned
        /\ ApiLogin(Cur, users[other].username, word, TRUE, 0).resp = LoginInvalid

\* C14: a successful login writes auth_token, token_expires and last_login
\* together: the row it leaves holds the returned token, the expiry computed
\* for this login and the time of this login; a login that fails writes none
\* of the three; and verify on the returned token, straight after the login,
\* answers valid.
C14_LoginWritesTokenExpiryLastLogin ==
    /\ \A u \in ProbeNames, p \in LoginPasswords, r \in BOOLEAN :
           LET o == ApiLogin(Cur, u, p, r, 0)
               id == o.resp.userId
           IN IF o.resp.ok
              THEN /\ pool => /\ o.s.users[id].auth_token = o.resp.token
                              /\ o.s.users[id].token_expires = LoginExpires(r)
                              /\ o.s.users[id].last_login = now
                              /\ \A other \in DOMAIN users \ {id} :
                                     o.s.users[other] = users[other]
                   /\ o.resp.token # NoToken
                   /\ ApiVerify(o.s, o.resp.token, 0).resp.ok
                   /\ ApiVerify(o.s, o.resp.token, 0).resp.userId = id
              ELSE o.s.users = users
    /\ \A u \in ProbeNames, f \in 1..2 :
           ApiLogin(Cur, u, pass, TRUE, f).s.users = users

\* a user with a stored session of one length logs in again, later, for the
\* other length: token, expiry and last login are all replaced
C14_Witness ==
    /\ pool
    /\ \E id \in DOMAIN users :
           LET o == ApiLogin(Cur, users[id].username, pass, TRUE, 0)
           IN /\ users[id].auth_token # NoToken
              /\ users[id].last_login < now
              /\ users[id].token_expires # LoginExpires(TRUE)
              /\ o.resp.ok
              /\ o.s.users[id].auth_token # users[id].auth_token
              /\ o.s.users[id].token_expires = LoginExpires(TRUE)
              /\ o.s.users[id].last_login = now

\* last_login of every stored user is the same in both states
SameLastLogin(s, t) ==
    \A id \in DOMAIN s.users : t.users[id].last_login = s.users[id].last_login

\* C15: last_login changes only on a successful login, and then only for the
\* user who logged in: a failed login, register, verify, logout,
\* change-username, game-auth and save-player leave every user's last_login
\* as it was, a storage failure part-way included.
C15_LastLoginOnlyOnLogin ==
    /\ \A u \in ProbeNames, p \in LoginPasswords, f \in StorageFailures(2) :
           LET o == ApiLogin(Cur, u, p, TRUE, f)
           IN \A id \in DOMAIN users :
                  o.s.users[id].last_login # users[id].last_login
                      => o.resp.ok /\ o.resp.userId = id
    /\ \A r \in RegisterInputs \cup RaceRegisterInputs, f \in StorageFailures(3) :
           SameLastLogin(Cur, ApiRegister(Cur, r[1], r[2], r[3], f).s)
    /\ SameLastLogin(Cur, ApiLogout(Cur).s)
    /\ \A t \in TokenInputs :
           /\ SameLastLogin(Cur, ApiVerify(Cur, t, 0).s)
           /\ SameLastLogin(Cur, ApiGameAuth(Cur, t, 0).s)
           /\ \A u \in RenameNames, p \in LoginPasswords :
                  SameLastLogin(Cur, ApiChangeUsername(Cur, t, u, p, 0).s)
    /\ \A t \in issued, u \in RenameNames, f \in 1..4 :
           SameLastLogin(Cur, ApiChangeUsername(Cur, t, u, pass, f).s)
    /\ \A id \in 1..MaxUsers, q \in SavePositions, d \in SaveDeltas :
           SameLastLogin(Cur, ApiSavePlayer(Cur, id, q[1], q[2], q[3], q[4], d, 0).s)

\* a user who logged in at an earlier time is renamed, and then logs in again
C15_Witness ==
    /\ pool
    /\ \E t \in issued :
           LET o == ApiChangeUsername(Cur, t, Bob, pass, 0)
               id == t.userId
           IN /\ users[id].last_login # NoTime
              /\ users[id].last_login < now
              /\ o.resp.ok
              /\ o.s.users[id].username # users[id].username
              /\ o.s.users[id].last_login = users[id].last_login
              /\ ApiLogin(o.s, Bob, pass, FALSE, 0).s.users[id].last_login = now

\* C16: a successful login stores token_expires = now + 30 days with remember
\* and now + 1 day without, the token itself is the same in both cases, and
\* verify answers invalid for a token once its stored expiry has passed: on
\* the persistent store an accepted token has a stored expiry not yet passed,
\* and in either mode no token is accepted more than 30 days after it was
\* issued, the longest session a login or a rename grants.
C16_SessionEndsAtStoredExpiry ==
    /\ \A u \in NameInputs, p \in PasswordInputs :
           LET long == ApiLogin(Cur, u, p, TRUE, 0)
               short == ApiLogin(Cur, u, p, FALSE, 0)
               id == long.resp.userId
           IN long.resp.ok =>
                  /\ short.resp.ok
                  /\ short.resp.token = long.resp.token
                  /\ pool => /\ long.s.users[id].token_expires = now + RememberDays
                             /\ short.s.users[id].token_expires = now + SessionDays
    /\ \A t \in issued :
           ApiVerify(Cur, t, 0).resp.ok =>
               /\ pool => RowOf(Cur, t).token_expires >= now
               /\ now <= t.iat + RememberDays

\* C17: every verify that does not answer valid gives the same response,
\* { valid: false } and no other field, whatever made it fail: no token, a
\* bad signature, an unknown user, a superseded token, a banned user, a
\* stored expiry that has passed, or a storage failure.
C17_VerifyUniformNegative ==
    \A t \in TokenInputs, f \in StorageFailures(1) :
        LET resp == ApiVerify(Cur, t, f).resp
        IN ~resp.ok =>
               /\ resp = Reply(FALSE, "")
               /\ resp.username = Empty /\ resp.userId = 0 /\ resp.token = NoToken

\* one state holds a superseded token, the current token of a banned user or
\* one whose stored expiry has passed, and a forged token; all are refused
C17_Witness ==
    /\ pool
    /\ \E t1, t2 \in issued :
           /\ t1 # t2
           /\ verifyToken(t1) /\ verifyToken(t2)
           /\ HasRow(Cur, t1) /\ RowOf(Cur, t1).auth_token # t1
           /\ HasRow(Cur, t2) /\ RowOf(Cur, t2).auth_token = t2
           /\ RowOf(Cur, t2).is_banned \/ StoredExpiryPassed(RowOf(Cur, t2))
           /\ ~ApiVerify(Cur, t1, 0).resp.ok
           /\ ~ApiVerify(Cur, t2, 0).resp.ok
    /\ \E t \in ForgedTokens : ~ApiVerify(Cur, t, 0).resp.ok

\* Tokens whose signature does not verify: a forgery, and every issued token
\* with its signature stripped or made with another key
BadSignatureTokens ==
    ForgedTokens \cup { [t EXCEPT !.key = k] : t \in issued, k \in {"", "other-key"} }

\* C18: verify answers invalid for every token whose signature does not verify
\* against the signing key, whatever identity it claims and whatever is
\* stored for that user, in both storage modes, and it changes nothing.
C18_BadSignatureIsInvalid ==
    \A t \in BadSignatureTokens, f \in StorageFailures(1) :
        LET o == ApiVerify(Cur, t, f)
        IN /\ ~o.resp.ok
           /\ o.resp = Invalid
           /\ o.s = Cur

\* the payload of a session that verifies, signed with another key, is refused
C18_Witness ==
    \E t \in issued :
        /\ ApiVerify(Cur, t, 0).resp.ok
        /\ ~ApiVerify(Cur, [t EXCEPT !.key = "other-key"], 0).resp.ok
        /\ \E u \in ForgedTokens : HasRow(Cur, u) /\ ~ApiVerify(Cur, u, 0).resp.ok

\* C19: save-player adds playTimeDelta to the stored play time: after two
\* saves for a user with deltas d1 and d2 the stored play time is its prior
\* value plus d1 + d2, never the last delta alone.
C19_SavePlayerAddsPlayTime ==
    pool =>
        \A id \in DOMAIN player_data, q \in SavePositions, d1, d2 \in SaveDeltas :
            LET first == ApiSavePlayer(Cur, id, q[1], q[2], q[3], q[4], d1, 0)
                second == ApiSavePlayer(first.s, id, q[1], q[2], q[3], q[4], d2, 0)
            IN /\ first.resp.ok /\ second.resp.ok
               /\ first.s.player_data[id].play_time = player_data[id].play_time + d1
               /\ second.s.player_data[id].play_time = player_data[id].play_time + d1 + d2

\* C20: a user's stored play time never decreases: every step of register,
\* login, verify, logout, change-username, game-auth and save-player leaves
\* each existing player_data row in place with a play time greater than or
\* equal to the one it had.
C20_PlayTimeNeverDecreases ==
    [][\A id \in DOMAIN player_data :
           /\ id \in DOMAIN player_data'
           /\ player_data'[id].play_time >= player_data[id].play_time]_vars

\* save-player has moved a registered user and the play time is what it was
C20_Witness ==
    /\ pool
    /\ \E id \in DOMAIN player_data, q \in SavePositions :
           /\ player_data[id].place_id = q[1]
           /\ player_data[id].pos_x = q[2]
           /\ player_data[id].pos_z = q[4]
           /\ player_data[id].play_time = DefaultPlayer.play_time

\* The stored player row as game-auth must report it
Snapshot(resp) == <<resp.placeId, resp.posX, resp.posY, resp.posZ>>
StoredSnapshot(p) == <<p.place_id, p.pos_x, p.pos_y, p.pos_z>>

\* The stores game-auth may find: the current one, and the one a register leaves
\* when its INSERT INTO player_data fails after the user row was written
StoresWithMissingPlayer ==
    { ApiRegister(Cur, x[1], x[2], x[3], 3).s : x \in RegisterInputs }

\* C21: a successful game-auth returns the user's id and username with the
\* stored place and position; the defaults (place 1, position 0, 5, 0) stand
\* in only where the player_data row is absent.
C21_GameAuthSnapshot ==
    /\ \A t \in TokenInputs :
           LET resp == ApiGameAuth(Cur, t, 0).resp
           IN resp.ok =>
                  /\ resp.userId = t.userId
                  /\ resp.username = StoredUsername(Cur, t.userId)
                  /\ resp.placeId # 0
                  /\ IF pool /\ t.userId \in DOMAIN player_data
                     THEN Snapshot(resp) = StoredSnapshot(player_data[t.userId])
                     ELSE Snapshot(resp) = StoredSnapshot(DefaultPlayer)
    /\ \A s \in StoresWithMissingPlayer :
           \A id \in DOMAIN s.users \ DOMAIN s.player_data :
               LET resp == ApiGameAuth(s, generateToken(id, s.users[id].username), 0).resp
               IN /\ resp.ok
                  /\ resp.userId = id
                  /\ resp.username = s.users[id].username
                  /\ Snapshot(resp) = StoredSnapshot(DefaultPlayer)

\* C22: save-player is an upsert of place and position: whenever it answers
\* success for a userId, a player_data row for that userId exists afterwards
\* and holds the place and position of the request, also when no row existed
\* before.
C22_SavePlayerUpserts ==
    \A id \in 1..MaxUsers, q \in SavePositions \cup { <<2, 3, 6, 4>> }, d \in SaveDeltas :
        LET o == ApiSavePlayer(Cur, id, q[1], q[2], q[3], q[4], d, 0)
        IN o.resp.ok =>
               /\ id \in DOMAIN o.s.player_data
               /\ StoredSnapshot(o.s.player_data[id]) = q

\* C23: any two successful logins of one user return different tokens,
\* however little time separates them.
C23_LoginTokensDiffer ==
    \A u \in ProbeNames, r1, r2 \in BOOLEAN :
        LET first == ApiLogin(Cur, u, pass, r1, 0)
            second == ApiLogin(first.s, u, pass, r2, 0)
        IN (first.resp.ok /\ second.resp.ok) =>
               second.resp.token # first.resp.token

\* C24: login sets the authToken cookie and the companion username cookie
\* exactly when it succeeds with remember true, and the cookie then holds the
\* token of the response; a failed login, and a successful one with remember
\* false, set no cookie and leave the browser's cookies as they were.
C24_LoginCookiesIffRemember ==
    /\ \A u \in ProbeNames, p \in LoginPasswords, r \in BOOLEAN :
           LET o == ApiLogin(Cur, u, p, r, 0)
           IN IF o.resp.ok /\ r
              THEN /\ o.resp.token # NoToken
                   /\ o.resp.cookie = o.resp.token
                   /\ o.s.cookies = [authToken |-> o.resp.token,
                                     username |-> o.resp.username]
              ELSE /\ o.resp.cookie = NoToken
                   /\ o.s.cookies = cookies
    /\ \A u \in ProbeNames, f \in 1..2 :
           LET o == ApiLogin(Cur, u, pass, TRUE, f)
           IN ~o.resp.ok => o.resp.cookie = NoToken /\ o.s.cookies = cookies

\* the browser holds the cookies of a remembered login; a later login without
\* remember returns another token and leaves them, one with remember
\* replaces them, and one with a wrong password leaves them
C24_Witness ==
    /\ cookies.authToken # NoToken
    /\ \E u \in ProbeNames :
           LET plain == ApiLogin(Cur, u, pass, FALSE, 0)
               kept == ApiLogin(Cur, u, pass, TRUE, 0)
               wrong == ApiLogin(Cur, u, word, TRUE, 0)
           IN /\ plain.resp.ok
              /\ plain.resp.token # cookies.authToken
              /\ plain.s.cookies = cookies
              /\ kept.resp.ok
              /\ kept.s.cookies.authToken = kept.resp.token
              /\ kept.s.cookies # cookies
              /\ ~wrong.resp.ok
              /\ wrong.s.cookies = cookies

\* failed is the outcome of a request one of whose storage calls fails, clean
\* the outcome of the same request with none failing: the failing request is
\* not answered with success; it gets the endpoint's generic failure if the
\* clean one succeeds, and otherwise that or the refusal the clean one gets
\* (the handler returned before the failing call)
CaughtAs(failed, clean, generic) ==
    /\ ~failed.resp.ok
    /\ clean.resp.ok => failed.resp = generic
    /\ failed.resp # generic => failed.resp = clean.resp

\* C25: a storage call failing in register, login, verify, change-username,
\* game-auth or save-player is caught and answered with that endpoint's
\* generic failure, never with success; a login whose UPDATE failed returns
\* no token and sets no cookie.
C25_StorageFailureIsGenericFailure ==
    pool =>
        /\ \A x \in RegisterInputs :
               LET clean == ApiRegister(Cur, x[1], x[2], x[3], 0)
               IN \A f \in 1..3 :
                      CaughtAs(ApiRegister(Cur, x[1], x[2], x[3], f), clean,
                               RegisterFailed)
        /\ \A u \in LoginNames, r \in BOOLEAN :
               LET clean == ApiLogin(Cur, u, pass, r, 0)
               IN \A f \in 1..2 :
                      LET o == ApiLogin(Cur, u, pass, r, f)
                      IN /\ CaughtAs(o, clean, LoginFailed)
                         /\ o.resp.token = NoToken
                         /\ o.resp.cookie = NoToken
                         /\ o.s.cookies = cookies
        /\ \A t \in TokenInputs :
               /\ CaughtAs(ApiVerify(Cur, t, 1), ApiVerify(Cur, t, 0), Invalid)
               /\ CaughtAs(ApiGameAuth(Cur, t, 1), ApiGameAuth(Cur, t, 0),
                           Reply(FALSE, "Auth failed"))
        /\ \A t \in issued, u \in RenameNames :
               LET clean == ApiChangeUsername(Cur, t, u, pass, 0)
               IN \A f \in 1..4 :
                      CaughtAs(ApiChangeUsername(Cur, t, u, pass, f), clean,
                               RenameFailed)
        /\ \A id \in 1..MaxUsers, q \in SavePositions, d \in SaveDeltas :
               ApiSavePlayer(Cur, id, q[1], q[2], q[3], q[4], d, 1).resp
                   = Reply(FALSE, "")

\* each of the six requests would succeed in this state, and each is answered
\* with its generic failure when its last storage call fails
C25_Witness ==
    /\ pool
    /\ \E x \in RegisterInputs :
           /\ ApiRegister(Cur, x[1], x[2], x[3], 0).resp.ok
           /\ ApiRegister(Cur, x[1], x[2], x[3], 3).resp = RegisterFailed
    /\ \E t \in issued, u \in RenameNames :
           /\ ApiLogin(Cur, t.username, pass, TRUE, 0).resp.ok
           /\ ApiLogin(Cur, t.username, pass, TRUE, 2).resp = LoginFailed
           /\ ApiVerify(Cur, t, 0).resp.ok
           /\ ApiVerify(Cur, t, 1).resp = Invalid
           /\ ApiGameAuth(Cur, t, 0).resp.ok
           /\ ~ApiGameAuth(Cur, t, 1).resp.ok
           /\ ApiChangeUsername(Cur, t, u, pass, 0).resp.ok
           /\ ApiChangeUsername(Cur, t, u, pass, 4).resp = RenameFailed
           /\ t.userId \in DOMAIN player_data
           /\ ~ApiSavePlayer(Cur, t.userId, 2, 3, 0, 4, 5, 1).resp.ok

\* The id register gives the user it creates
NewUserId(s) == IF pool THEN InsertId(s) ELSE s.memoryIdCounter

\* verify accepts some token a client can hold as a session of user id
VerifiesFor(s, id) ==
    \E t \in s.issued \cup ForgedTokens :
        LET resp == ApiVerify(s, t, 0).resp
        IN resp.ok /\ (resp.userId = id \/ t.userId = id)

\* C26: register does not log the user in: a successful register stores no
\* token and no expiry for the new user, returns no token and sets no cookie,
\* and verify accepts no token for that user until a login has succeeded.
C26_RegisterDoesNotLogIn ==
    /\ \A x \in RegisterInputs :
           LET o == ApiRegister(Cur, x[1], x[2], x[3], 0)
               id == NewUserId(Cur)
           IN o.resp.ok =>
                  /\ o.resp = RegisterDone
                  /\ o.resp.token = NoToken /\ o.resp.cookie = NoToken
                  /\ o.s.cookies = cookies /\ o.s.issued = issued
                  /\ pool => /\ o.s.users[id].auth_token = NoToken
                             /\ o.s.users[id].token_expires = NoTime
                  /\ ~VerifiesFor(o.s, id)
                  /\ LET l == ApiLogin(o.s, x[1], x[3], FALSE, 0)
                     IN /\ l.resp.ok /\ l.resp.userId = id
                        /\ ApiVerify(l.s, l.resp.token, 0).resp.ok
    /\ \A id \in DOMAIN users :
           users[id].last_login = NoTime =>
               /\ users[id].auth_token = NoToken
               /\ users[id].token_expires = NoTime
               /\ ~VerifiesFor(Cur, id)

\* one user holds a session that verifies; another has registered and has
\* not logged in, and no token verifies for that one
C26_Witness ==
    /\ pool
    /\ \E id, other \in DOMAIN users :
           /\ users[id].last_login = NoTime
           /\ users[id].auth_token = NoToken
           /\ ~VerifiesFor(Cur, id)
           /\ users[other].auth_token # NoToken
           /\ VerifiesFor(Cur, other)

\* Register requests with one field missing or malformed and the others good
ShortPassword == <<"a", "b", "c">>
MalformedEmails ==
    { BadMail, <<"@", "x", ".", "c">>, <<"b", "@", "x", ".">>,
      <<"b", " ", "@", "x", ".", "c">>, <<"b", "@", "@", "x", ".", "c">> }
MalformedRegisterInputs ==
    { <<u, bobMail, pass>> : u \in {Empty, TooShort, BadChar, TooLong} }
    \cup { <<amy, e, pass>> : e \in MalformedEmails \cup {Empty} }
    \cup { <<bob, amyMail, p>> : p \in {Empty, ShortPassword} }

\* C27: a register request with a missing field, a username that does not
\* match ^[A-Za-z0-9_]{3,24}$, a password shorter than 4 characters or a
\* malformed email is declined before any storage access (a storage call set
\* to fail is never reached) and leaves the stored state unchanged.
C27_RegisterValidatesFirst ==
    \A x \in MalformedRegisterInputs, f \in StorageFailures(1) :
        LET o == ApiRegister(Cur, x[1], x[2], x[3], f)
        IN /\ ~WellFormedRegister(x[1], x[2], x[3])
           /\ ~o.resp.ok
           /\ o.resp \notin {RegisterFailed, RegisterConflict}
           /\ o.s = Cur

\* the store holds amy and has room: a well-formed request for a new name
\* would be carried out, and one naming amy with a malformed email is declined
\* for its email, not for the name
C27_Witness ==
    /\ NameExists(Cur, amy)
    /\ \E x \in RegisterInputs : ApiRegister(Cur, x[1], x[2], x[3], 0).resp.ok
    /\ ApiRegister(Cur, amy, amyMail, pass, 0).resp = RegisterConflict
    /\ ApiRegister(Cur, amy, BadMail, pass, 0).resp = Reply(FALSE, "Invalid email format")
    /\ ApiRegister(Cur, amy, BadMail, pass, 0).s = Cur

\* C28: no operation blocks indefinitely: a request to any route that is
\* suspended at an await is answered in the end, on every path through its
\* handler, provided the call it awaits returns or fails.
C28_EveryRequestAnswered ==
    (inflight[Followed] # Idle) ~> (inflight[Followed] = Idle)

\* a login has passed its SELECT and its bcrypt.compare and waits on its UPDATE
C28_Witness ==
    /\ pool
    /\ At(Followed, "login", "update")
    /\ users # <<>>

\* Register requests in flight, and two names equal in any letter case
Registering(slot) == inflight[slot].op = "register"
SameName(a, b) == toLowerCase(a) = toLowerCase(b)

\* C29: two register requests for one username, in any letter case, that
\* interleave at their storage calls may both pass the existence check, but
\* the unique index lets one INSERT through: at most one of them is answered
\* with success and at most one row holds the name.  A register is answered
\* with success once it has inserted its player_data row, so the registers
\* that succeeded for a name are the player_data rows of users with that name.
\* Without a pool no register is suspended between its check and its insert.
C29_ConcurrentRegisterOneWinner ==
    /\ \A a, b \in DOMAIN users :
           SameName(users[a].username, users[b].username) => a = b
    /\ \A a, b \in DOMAIN player_data :
           /\ a \in DOMAIN users
           /\ SameName(users[a].username, users[b].username) => a = b
    /\ \A a, b \in DOMAIN memoryUsers :
           SameName(memoryUsers[a].username, memoryUsers[b].username) => a = b
    /\ \A a, b \in 1..MaxInFlight :
           ( /\ a # b
             /\ At(a, "register", "player") /\ At(b, "register", "player") )
           => ~SameName(inflight[a].username, inflight[b].username)
    /\ \A a \in 1..MaxInFlight :
           At(a, "register", "player") =>
               /\ users[inflight[a].userId].username = inflight[a].username
               /\ inflight[a].userId \notin DOMAIN player_data
    /\ ~pool => \A a \in 1..MaxInFlight : Registering(a) => inflight[a].pc = "hash"

\* two requests for one name in two letter cases have both passed the
\* existence check, and neither has inserted yet
C29_Witness ==
    /\ pool
    /\ \E a, b \in 1..MaxInFlight :
           /\ a # b
           /\ At(a, "register", "insert") /\ At(b, "register", "insert")
           /\ inflight[a].username # inflight[b].username
           /\ SameName(inflight[a].username, inflight[b].username)

\* C30: change-username is carried out only for a token that is the stored
\* auth_token of the user it names and whose stored token_expires has not
\* passed: a superseded or expired token renames nothing, whatever the password.
C30_RenameNeedsCurrentToken ==
    pool =>
        \A t \in issued, u \in RenameNames, p \in LoginPasswords :
            ApiChangeUsername(Cur, t, u, p, 0).resp.ok =>
                /\ RowOf(Cur, t).auth_token = t
                /\ RowOf(Cur, t).token_expires >= now

\* C31: change-username renames and replaces the token together: in no
\* reachable state, under any interleaving or storage failure, is a user's
\* stored username a name other than the one in the stored auth_token while
\* verify still accepts that token.
C31_RenameAndTokenTogether ==
    pool =>
        \A id \in DOMAIN users :
            LET t == users[id].auth_token
            IN (t # NoToken /\ ApiVerify(Cur, t, 0).resp.ok)
                   => t.username = users[id].username

\* no request is suspended at an await
Quiescent == \A slot \in 1..MaxInFlight : inflight[slot] = Idle

\* C32: once every in-flight request has completed, whatever login and
\* change-username requests for one user ran concurrently, the username in
\* the user's stored auth_token is the user's stored username.
C32_StoredTokenNamesStoredUser ==
    (pool /\ Quiescent) =>
        \A id \in DOMAIN users :
            users[id].auth_token # NoToken
                => users[id].auth_token.username = users[id].username

\* verify or game-auth accepts the token
Accepted(s, t) == ApiVerify(s, t, 0).resp.ok \/ ApiGameAuth(s, t, 0).resp.ok

\* C33: the in-memory store enforces the token rules of the persistent one;
\* in particular, after a later login or a rename has given the user another
\* token, verify and game-auth reject the superseded token in memory mode too.
C33_MemoryRejectsSuperseded ==
    ~pool =>
        \A t \in issued :
            /\ \A u \in LoginNames :
                   LET o == ApiLogin(Cur, u, pass, FALSE, 0)
                   IN (o.resp.ok /\ o.resp.userId = t.userId /\ o.resp.token # t)
                          => ~Accepted(o.s, t)
            /\ \A u \in RenameNames :
                   LET o == ApiChangeUsername(Cur, t, u, pass, 0)
                   IN (o.resp.ok /\ o.resp.token # t) => ~Accepted(o.s, t)

\* C34: on verify and behind authMiddleware the authToken cookie takes
\* precedence over the Authorization header: with a cookie present the answer
\* is that of the cookie token alone, and the header is read only when there
\* is no cookie.  So after a login with remember and a later login without
\* (which leaves the cookie), verify with the old cookie and the new, current
\* bearer token is answered invalid.
C34_CookieTakesPrecedence ==
    /\ \A c \in TokenInputs \ {NoToken}, h \in TokenInputs :
           /\ ApiVerify(Cur, RequestToken(c, h), 0) = ApiVerify(Cur, c, 0)
           /\ ApiVerify(Cur, RequestToken(NoToken, h), 0) = ApiVerify(Cur, h, 0)
           /\ authMiddleware(RequestToken(c, h)) = authMiddleware(c)
    /\ \A u \in LoginNames :
           LET old == cookies.authToken
               o == ApiLogin(Cur, u, pass, FALSE, 0)
           IN ( /\ old # NoToken
                /\ o.resp.ok
                /\ o.resp.userId = old.userId
                /\ o.resp.token # old )
              => /\ o.s.cookies = cookies
                 /\ ~ApiVerify(o.s, RequestToken(old, o.resp.token), 0).resp.ok

\* C35: with a persistent store, the userId and username of a positive verify
\* and of a successful game-auth are those of the stored row at the time of
\* the check, never the username in the token: after a rename every accepted
\* token yields the new username.
C35_IdentityFromStoredRow ==
    pool =>
        /\ \A t \in TokenInputs :
               LET v == ApiVerify(Cur, t, 0).resp
                   g == ApiGameAuth(Cur, t, 0).resp
               IN /\ v.ok => v.userId = t.userId /\ v.username = RowOf(Cur, t).username
                  /\ g.ok => g.userId = t.userId /\ g.username = RowOf(Cur, t).username
        /\ \A t \in issued, u \in RenameNames :
               LET o == ApiChangeUsername(Cur, t, u, pass, 0)
               IN o.resp.ok =>
                      \A t2 \in issued \cup {o.resp.token} :
                          LET v == ApiVerify(o.s, t2, 0).resp
                              g == ApiGameAuth(o.s, t2, 0).resp
                          IN t2.userId = t.userId =>
                                 /\ v.ok => v.username = u
                                 /\ g.ok => g.username = u

\* a token that still carries the name the user had before a rename is
\* accepted, and the answer carries the stored name
C35_Witness ==
    /\ pool
    /\ \E t \in issued :
           /\ HasRow(Cur, t)
           /\ t.username # RowOf(Cur, t).username
           /\ ApiGameAuth(Cur, t, 0).resp.ok
           /\ ApiGameAuth(Cur, t, 0).resp.username = RowOf(Cur, t).username
    /\ \E t \in issued :
           /\ HasRow(Cur, t)
           /\ t.username # RowOf(Cur, t).username
           /\ ApiVerify(Cur, t, 0).resp.ok
           /\ ApiVerify(Cur, t, 0).resp.username = RowOf(Cur, t).username

\* placeId, posX, posY, posZ of the saves tried: no zero, posY = 0, all zero
RoundTripPositions == { <<2, 3, 6, 4>>, <<2, 3, 0, 4>>, <<0, 0, 0, 0>> }

\* C36: save-player followed by game-auth is a round trip: after a successful
\* save-player for a user who has a player_data row, a successful game-auth
\* for that user returns exactly the placeId, posX, posY and posZ saved, for
\* all values, 0 included.
C36_SaveThenGameAuthRoundTrip ==
    pool =>
        \A t \in issued, q \in RoundTripPositions :
            LET saved == ApiSavePlayer(Cur, t.userId, q[1], q[2], q[3], q[4], 0, 0)
                auth == ApiGameAuth(saved.s, t, 0)
            IN ( /\ t.userId \in DOMAIN player_data
                 /\ saved.resp.ok
                 /\ auth.resp.ok )
               => Snapshot(auth.resp) = q

\* the user a name is registered to, ignoring letter case
RegisteredAs(s, name) ==
    IF pool THEN { id \in DOMAIN s.users : toLowerCase(s.users[id].username) = toLowerCase(name) }
    ELSE { id \in DOMAIN s.memoryUsers :
             toLowerCase(s.memoryUsers[id].username) = toLowerCase(name) }

\* C37: login looks the user up by exact username: a login whose username
\* differs from the registered one only in letter case finds no user and is
\* answered with the invalid-credentials outcome, in both storage modes.
C37_LoginByExactUsername ==
    \A u \in ProbeNames, p \in LoginPasswords :
        \A id \in RegisteredAs(Cur, u) :
            StoredUsername(Cur, id) # u
                => ApiLogin(Cur, u, p, FALSE, 0).resp = LoginInvalid

\* the stored token was written by change-username: login writes last_login
\* together with a token issued at that instant, change-username leaves
\* last_login alone
StoredByRename(row) ==
    row.auth_token # NoToken /\ row.auth_token.iat # row.last_login

\* C38: a successful change-username on the persistent store sets
\* token_expires to now + 30 days whatever the remember choice of the login
\* that opened the session, so the session is accepted by verify for up to
\* 30 days after the rename.
C38_RenameGrantsThirtyDays ==
    pool =>
        /\ \A t \in issued, u \in RenameNames :
               LET o == ApiChangeUsername(Cur, t, u, pass, 0)
               IN o.resp.ok =>
                      /\ o.s.users[t.userId].token_expires = now + RenameDays
                      /\ ApiVerify(o.s, o.resp.token, 0).resp.ok
        /\ \A id \in DOMAIN users :
               (StoredByRename(users[id]) /\ now <= users[id].auth_token.iat + RenameDays)
                   => /\ users[id].token_expires = users[id].auth_token.iat + RenameDays
                      /\ ApiVerify(Cur, users[id].auth_token, 0).resp.ok

\* a session opened without remember is renamed on the last day of its
\* one-day stored expiry, which the rename replaces by thirty days from now
C38_Witness ==
    /\ pool
    /\ \E t \in issued, u \in RenameNames :
           LET o == ApiChangeUsername(Cur, t, u, pass, 0)
           IN /\ RowOf(Cur, t).auth_token = t
              /\ RowOf(Cur, t).token_expires = t.iat + SessionDays
              /\ now = RowOf(Cur, t).token_expires
              /\ o.resp.ok
              /\ o.s.users[t.userId].token_expires = now + RenameDays

====
